---- MODULE Spec2Model ----
(***************************************************************************)
(* A model of src/src/SingleEvent.ts: the SuperEvent base class with its   *)
(* listener and child sets and connect/disconnect hooks, the three         *)
(* variants SingleEventSource, FilterEvent and MapEvent, and the promise   *)
(* bridge next()/take().                                                   *)
(*                                                                         *)
(* A JavaScript Set keeps insertion order, ignores the add of a member and *)
(* lets a for-of loop see members appended while it runs and skip members  *)
(* deleted before it reaches them.  A Set is modelled as a duplicate-free  *)
(* sequence and a running for-of loop as the count of entries it has       *)
(* already passed; deleting an entry the loop has passed lowers the count. *)
(***************************************************************************)
EXTENDS Integers, Sequences, FiniteSets, TLC

\* ------------------------------------------------------------------ bounds

\* top-level listen/unlisten/next/take calls in one behaviour
MaxOps == 3
\* firings of its node that a running take() sees
MaxFires == 3
\* direct next() calls in one behaviour
MaxNext == 1
\* the largest count take() is called with
MaxCount == 2
\* times a listener that fires the event again does so in one trigger call
MaxRefire == 1
\* times a listener that removes and re-adds itself does so in one trigger call
MaxRenew == 1

\* -------------------------------------------------------- the event tree

\* src is the node singleEvent() returns; flt = src.filter(Pred);
\* fm = flt.map(Transform); mp = src.map(Transform).
Nodes == {"src", "flt", "fm", "mp"}

Kind(n) ==
    CASE n = "src" -> "source"
      [] n = "flt" -> "filter"
      [] OTHER -> "map"

Parent(n) ==
    CASE n = "flt" -> "src"
      [] n = "fm" -> "flt"
      [] OTHER -> "src"

\* the values the trigger function is called with
Values == {-1, 3, 5}

\* the predicate handed to filter() and the transform handed to map()
Pred(v) == v > 0

Transform(v) == v * 2

\* the value an onDisconnect that fires the event calls trigger with
HookValue == 3

\* the value a faulty predicate or transform throws on
BadValue == 5

\* the sender handed to singleEvent()
MySender == "mySender"

senderOwn(n) == IF Kind(n) = "source" THEN MySender ELSE n

RECURSIVE sender(_)

\* this._sender: the constructor argument, which is the argument of
\* singleEvent() for the source and the parent's this._sender for a node
\* made by filter or map
sender(n) == IF Kind(n) = "source" THEN MySender ELSE sender(Parent(n))

\* Listener identities.  "plain" listeners only record their call; a "next"
\* listener is the closure l that next() builds; the "re" listener calls
\* next() on the source from inside its body.
Plain(i) == [kind |-> "plain", id |-> i]

NextL(k) == [kind |-> "next", id |-> k]

Reentrant == [kind |-> "re", id |-> 0]

\* a listener whose body calls the trigger function with what it received
Refire == [kind |-> "fire", id |-> 0]

\* listeners whose body calls listen or unlisten on the node that called
\* them: one removes itself, one removes Plain(1), one adds Plain(2), one
\* removes itself and adds itself again
SelfRemover == [kind |-> "selfrm", id |-> 0]

Remover == [kind |-> "rm", id |-> 0]

Adder == [kind |-> "add", id |-> 0]

Renewer == [kind |-> "renew", id |-> 0]

MutatingListeners == {SelfRemover, Remover, Adder, Renewer}

\* a listener whose body throws
Thrower == [kind |-> "throw", id |-> 0]

PlainListeners == {Plain(1), Plain(2)}

AllListeners ==
    PlainListeners \cup {Reentrant, Refire, Thrower} \cup MutatingListeners

Range(s) == {s[i] : i \in 1..Len(s)}

IndexOf(s, x) == CHOOSE i \in 1..Len(s) : s[i] = x

VARIABLES
    created,    \* the nodes constructed so far
    listeners,  \* node -> _listeners, in Set (insertion) order
    children,   \* node -> _children, in Set (insertion) order
    conn,       \* node -> calls of its _connect in the latest top-level call
    disc,       \* node -> calls of its _disconnect in that call
    ups,        \* node -> times it went from empty to non-empty in that call
    downs,      \* node -> times it went from non-empty to empty in that call
    stack,      \* the running _notifyListeners calls, innermost last
    promises,   \* the promises next() has returned, in call order
    log,        \* listener calls of the latest trigger call
    evals,      \* predicate and transform calls of the latest trigger call
    thrown,     \* the latest trigger call ended with an error
    faulty,     \* which function throws on BadValue: "none", "pred" (the
                \* predicate handed to filter) or "transform" (handed to map)
    pass,       \* what the latest trigger call started from
    hist,       \* listener -> "never" listened, "listened", or "unlistened"
                \* (src.unlisten called on it after its latest listen)
    relistened, \* the latest top-level call was listen(l) on a node that
                \* had l in its listener set
    take,       \* the take() call and its position
    onDisconnect, \* what the onDisconnect handed to singleEvent() does:
                \* "nothing", or "fire" (it calls the trigger function)
    ops         \* top-level calls so far

vars == <<created, listeners, children, conn, disc, ups, downs, stack,
          promises, log, evals, thrown, faulty, pass, hist, relistened,
          take, onDisconnect, ops>>

\* The mutable program state as one value, so that the methods below can be
\* written as functions from state to state and call each other.
Cur ==
    [L |-> listeners, C |-> children, conn |-> conn, disc |-> disc,
     ups |-> ups, downs |-> downs, st |-> stack, pr |-> promises,
     log |-> log, ev |-> evals, err |-> thrown, faulty |-> faulty,
     tk |-> take, hook |-> onDisconnect]

\* the program state becomes s (s is worked out once, as the value t)
Install(s) ==
    \E t \in {s} :
        /\ listeners' = t.L
        /\ children' = t.C
        /\ conn' = t.conn
        /\ disc' = t.disc
        /\ ups' = t.ups
        /\ downs' = t.downs
        /\ stack' = t.st
        /\ promises' = t.pr
        /\ log' = t.log
        /\ evals' = t.ev
        /\ thrown' = t.err
        /\ take' = t.tk

\* this._listeners.size === 0 && this._children.size === 0
IsEmpty(s, n) == Len(s.L[n]) = 0 /\ Len(s.C[n]) = 0

\* ------------------------------------------------- the two Sets of a node

setAddAppends(seq, x) == Append(seq, x)

\* Set.prototype.add: a member keeps its place, a new entry goes last.
setAdd(seq, x) == IF x \in Range(seq) THEN seq ELSE Append(seq, x)

\* Set.prototype.delete
setDelete(seq, x) == SelectSeq(seq, LAMBDA y : y # x)

\* What a delete does to the for-of loops running over the same Set: a loop
\* that has passed the deleted entry has passed one entry less.
dropFromLoops(st, n, phase, p) ==
    [i \in 1..Len(st) |->
        IF st[i].node = n /\ st[i].phase = phase /\ st[i].idx >= p
        THEN [st[i] EXCEPT !.idx = @ - 1]
        ELSE st[i]]

\* empty -> non-empty and non-empty -> empty transitions of node n between
\* states s and t, added to the counts kept for them
countTransition(s, t, n) ==
    [t EXCEPT !.ups[n] = IF IsEmpty(s, n) /\ ~IsEmpty(t, n) THEN @ + 1 ELSE @,
              !.downs[n] = IF ~IsEmpty(s, n) /\ IsEmpty(t, n) THEN @ + 1 ELSE @]

\* this._listeners.add(listener)
addListener(s, n, l) ==
    countTransition(s, [s EXCEPT !.L[n] = setAdd(@, l)], n)

\* this._listeners.delete(listener)
deleteListener(s, n, l) ==
    IF l \notin Range(s.L[n]) THEN s
    ELSE countTransition(s,
            [s EXCEPT !.L[n] = setDelete(@, l),
                      !.st = dropFromLoops(@, n, "listeners", IndexOf(s.L[n], l))],
            n)

\* this._children.add(e)
addChildEntry(s, n, c) ==
    countTransition(s, [s EXCEPT !.C[n] = setAdd(@, c)], n)

\* this._children.delete(e)
deleteChildEntry(s, n, c) ==
    IF c \notin Range(s.C[n]) THEN s
    ELSE countTransition(s,
            [s EXCEPT !.C[n] = setDelete(@, c),
                      !.st = dropFromLoops(@, n, "children", IndexOf(s.C[n], c))],
            n)

\* ------------------------------------------------------ SuperEvent methods

\* _notifyListeners(args) begins: no listener and no child passed yet
\* (tk.fired keeps the values the node of a running take() has fired with,
\* tk.heard whether the listener of the take's next() was registered then)
notifyListeners(s, n, v) ==
    LET watched == s.tk.pc = "awaiting" /\ s.tk.node = n
    IN  [s EXCEPT !.st = Append(@, [node |-> n, val |-> v,
                                    phase |-> "listeners", idx |-> 0]),
                  !.tk.fired = IF watched THEN Append(@, v) ELSE @,
                  !.tk.heard = IF watched
                               THEN Append(@, NextL(s.tk.cur) \in Range(s.L[n]))
                               ELSE @]

\* this._pred(args) or this._transform(args) is called by node n
called(s, n, v) == [s EXCEPT !.ev = Append(@, [node |-> n, arg |-> v])]

raiseSwallowed(s) == [s EXCEPT !.err = TRUE]

\* throw: nothing on the way out catches, so every running _notifyListeners
\* and _trigger is left at once and the error reaches the caller of trigger
raise(s) == [s EXCEPT !.st = <<>>, !.err = TRUE]

\* the function of kind f (predicate or transform) throws on v
Throws(s, f, v) == s.faulty = f /\ v = BadValue

triggerIgnoresPred(s, n, v) ==
    CASE Kind(n) = "map" -> notifyListeners(called(s, n, v), n, Transform(v))
      [] OTHER -> notifyListeners(s, n, v)

triggerUntransformed(s, n, v) ==
    CASE Kind(n) = "filter" ->
            IF Pred(v) THEN notifyListeners(called(s, n, v), n, v)
            ELSE called(s, n, v)
      [] OTHER -> notifyListeners(s, n, v)

triggerTestsPerObserver(s, n, v) ==
    CASE Kind(n) = "source" -> notifyListeners(s, n, v)
      [] Kind(n) = "filter" ->
            IF Pred(v)
            THEN notifyListeners(called(called(s, n, v), n, v), n, v)
            ELSE called(s, n, v)
      [] OTHER -> notifyListeners(called(s, n, v), n, Transform(v))

\* _trigger(args) of the three variants
trigger(s, n, v) ==
    CASE Kind(n) = "source" -> notifyListeners(s, n, v)
      [] Kind(n) = "filter" ->
            IF Throws(s, "pred", v) THEN raise(called(s, n, v))
            ELSE IF Pred(v) THEN notifyListeners(called(s, n, v), n, v)
            ELSE called(s, n, v)
      [] OTHER ->
            IF Throws(s, "transform", v) THEN raise(called(s, n, v))
            ELSE notifyListeners(called(s, n, v), n, Transform(v))

RECURSIVE connect(_, _), disconnect(_, _), addChild(_, _, _),
          removeChild(_, _, _), unlisten(_, _, _), unlistenChildren(_, _, _, _)

\* a take() call has begun and has not returned its array yet
TakeRunning(s) == s.tk.pc \in {"called", "awaiting"}

\* node n's _connect was called: counted for the latest top-level call and,
\* while a take() runs, for that take as a whole
countConnect(s, n) ==
    [s EXCEPT !.conn[n] = @ + 1,
              !.tk.conns[n] = IF TakeRunning(s) THEN @ + 1 ELSE @]

\* node n's _disconnect was called, counted likewise
countDisconnect(s, n) ==
    [s EXCEPT !.disc[n] = @ + 1,
              !.tk.discs[n] = IF TakeRunning(s) THEN @ + 1 ELSE @]

connectHookOnly(s, n) == countConnect(s, n)

\* this._connect(): the caller's onConnect for the source (counted only),
\* () => this.addChild(filterEvent) for a node made by filter or map.
connect(s, n) ==
    LET t == countConnect(s, n)
    IN  IF Kind(n) = "source" THEN t ELSE addChild(t, Parent(n), n)

\* this._disconnect(): the caller's onDisconnect for the source (counted,
\* and calling the trigger function if it is one that does), and
\* () => this.removeChild(filterEvent) for a derived node.
disconnect(s, n) ==
    LET t == countDisconnect(s, n)
    IN  CASE Kind(n) # "source" -> removeChild(t, Parent(n), n)
          [] s.hook = "fire" -> trigger(t, n, HookValue)
          [] OTHER -> t

addChild(s, n, c) ==
    addChildEntry(IF IsEmpty(s, n) THEN connect(s, n) ELSE s, n, c)

removeChildKeepsHook(s, n, c) == deleteChildEntry(s, n, c)

removeChild(s, n, c) ==
    LET t == deleteChildEntry(s, n, c)
    IN  IF IsEmpty(t, n) THEN disconnect(t, n) ELSE t

filterRegisters(s, n, c) == addChild(s, n, c)

\* n.filter(pred) building node c: the constructor stores its arguments; the
\* closures that call n.addChild(c) and n.removeChild(c) are only handed
\* over as c's hooks, so nothing of n changes.
filter(s, n, c) == s

\* n.map(transform) building node c, likewise
map(s, n, c) == s

listenAlwaysConnects(s, n, l) == addListener(connect(s, n), n, l)

listen(s, n, l) ==
    addListener(IF IsEmpty(s, n) THEN connect(s, n) ELSE s, n, l)

\* for (let child of this._children) child.unlisten(listener), the loop
\* having passed i entries.  The child may delete itself from the Set the
\* loop runs over (through its disconnect hook).
unlistenChildren(s, n, l, i) ==
    IF i >= Len(s.C[n]) THEN s
    ELSE LET c == s.C[n][i + 1]
             t == unlisten(s, c, l)
         IN  unlistenChildren(t, n, l, IF c \in Range(t.C[n]) THEN i + 1 ELSE i)

unlistenNoDisconnect(s, n, l) ==
    unlistenChildren(deleteListener(s, n, l), n, l, 0)

unlistenNoCascade(s, n, l) ==
    LET t == deleteListener(s, n, l)
    IN  IF IsEmpty(t, n) THEN disconnect(t, n) ELSE t

unlisten(s, n, l) ==
    LET t == unlistenChildren(deleteListener(s, n, l), n, l, 0)
    IN  IF IsEmpty(t, n) THEN disconnect(t, n) ELSE t

\* next(): the promise executor runs at once, so the listener is registered
\* before next() returns.  inFire: next() was called while the latest trigger
\* call was running; sameFire: that same trigger call resolved the promise;
\* calls: how often the listener l of this next() has been called.
next(s, n) ==
    LET k == Len(s.pr) + 1
        p == [node |-> n, st |-> "pending", val |-> 0, calls |-> 0,
              inFire |-> s.st # <<>>, sameFire |-> FALSE]
    IN  listen([s EXCEPT !.pr = Append(@, p)], n, NextL(k))

\* ok(a): a promise is settled by the first call of its resolve function
resolve(s, k, v) ==
    [s EXCEPT !.pr[k] = IF @.st = "pending"
                        THEN [@ EXCEPT !.st = "resolved", !.val = v,
                                       !.sameFire = s.pr[k].inFire]
                        ELSE @]

\* the calls of listener l in the running trigger call
Times(s, l) == Cardinality({i \in 1..Len(s.log) : s.log[i].l = l})

callListenerNoUnlisten(s, n, l, v) ==
    LET t == [s EXCEPT !.log = Append(@, [node |-> n, l |-> l, val |-> v,
                                          sender |-> sender(n)])]
    IN  CASE l.kind = "next" ->
                resolve([t EXCEPT !.pr[l.id].calls = @ + 1], l.id, v)
          [] OTHER -> t

\* l(args, this._sender) for a listener l of node n
callListener(s, n, l, v) ==
    LET t == [s EXCEPT !.log = Append(@, [node |-> n, l |-> l, val |-> v,
                                          sender |-> sender(n)])]
    IN  CASE l.kind = "plain" -> t
          [] l.kind = "next" ->
                unlisten(resolve([t EXCEPT !.pr[l.id].calls = @ + 1], l.id, v),
                         s.pr[l.id].node, l)
          [] l.kind = "re" -> IF Len(s.pr) < MaxNext THEN next(t, "src") ELSE t
          [] l.kind = "fire" ->
                IF Times(s, l) < MaxRefire THEN trigger(t, "src", v) ELSE t
          [] l.kind = "throw" -> raise(t)
          [] l.kind = "selfrm" -> unlisten(t, n, l)
          [] l.kind = "rm" -> unlisten(t, n, Plain(1))
          [] l.kind = "add" -> listen(t, n, Plain(2))
          [] l.kind = "renew" ->
                IF Times(s, l) < MaxRenew THEN listen(unlisten(t, n, l), n, l)
                ELSE t

\* ------------------------------------------------------------- firing

Top(s) == s.st[Len(s.st)]

advance(s) == [s EXCEPT !.st[Len(s.st)].idx = @ + 1]

notifyListenerReversed(s) ==
    LET f == Top(s)
    IN  callListener(advance(s), f.node,
                     s.L[f.node][Len(s.L[f.node]) - f.idx], f.val)

\* one turn of for (let l of this._listeners) l(args, this._sender)
notifyListener(s) ==
    LET f == Top(s)
    IN  callListener(advance(s), f.node, s.L[f.node][f.idx + 1], f.val)

\* one turn of for (let c of this._children) c._trigger(args)
notifyChild(s) ==
    LET f == Top(s)
    IN  trigger(advance(s), s.C[f.node][f.idx + 1], f.val)

\* the listener loop is over: on to the child loop
endListeners(s) ==
    [s EXCEPT !.st[Len(s.st)] = [@ EXCEPT !.phase = "children", !.idx = 0]]

\* the child loop is over: _notifyListeners returns
endChildren(s) == [s EXCEPT !.st = SubSeq(@, 1, Len(@) - 1)]

\* ------------------------------------------------------------- take

Zero == [n \in Nodes |-> 0]

takeLoopTwoAtOnce(s) ==
    IF Len(s.tk.arr) < s.tk.count
    THEN LET t == next(next(s, s.tk.node), s.tk.node)
         IN  [t EXCEPT !.tk.pc = "awaiting", !.tk.cur = Len(t.pr)]
    ELSE [s EXCEPT !.tk.pc = "done"]

takeLoopTestsAfter(s) ==
    LET t == next(s, s.tk.node)
    IN  [t EXCEPT !.tk.pc = "awaiting", !.tk.cur = Len(t.pr)]

\* for (let i = 0; i < count; ++i) at its test, i being array.length: either
\* next() is called and the function waits for its promise, or it returns.
takeLoop(s) ==
    IF Len(s.tk.arr) < s.tk.count
    THEN LET t == next(s, s.tk.node)
         IN  [t EXCEPT !.tk.pc = "awaiting", !.tk.cur = Len(t.pr)]
    ELSE [s EXCEPT !.tk.pc = "done"]

\* take(count) up to its first await
takeCall(s, n, c) ==
    takeLoop([s EXCEPT !.tk = [pc |-> "called", node |-> n, count |-> c,
                               arr |-> <<>>, cur |-> 0, fired |-> <<>>,
                               heard |-> <<>>, conns |-> Zero,
                               discs |-> Zero]])

\* array.push(await this.next()) once the awaited promise is resolved
takeResume(s) ==
    takeLoop([s EXCEPT !.tk.arr = Append(@, s.pr[s.tk.cur].val)])

\* ------------------------------------------------------------ behaviours

EmptySets == [n \in Nodes |-> <<>>]

NoPass == [on |-> FALSE, val |-> 0, L |-> EmptySets, C |-> EmptySets]

NoTake ==
    [pc |-> "idle", node |-> "src", count |-> 0, arr |-> <<>>, cur |-> 0,
     fired |-> <<>>, heard |-> <<>>, conns |-> Zero, discs |-> Zero]

\* every node as its constructor leaves it: nothing registered or called
Unobserved ==
    /\ listeners = EmptySets
    /\ children = EmptySets
    /\ conn = Zero
    /\ disc = Zero
    /\ ups = Zero
    /\ downs = Zero
    /\ stack = <<>>
    /\ promises = <<>>
    /\ log = <<>>
    /\ evals = <<>>
    /\ thrown = FALSE
    /\ pass = NoPass
    /\ hist = [l \in AllListeners |-> "never"]
    /\ relistened = FALSE
    /\ take = NoTake
    /\ ops = 0

\* the source alone, just constructed
Constructed == created = {"src"} /\ Unobserved

\* const [ev, trigger] = singleEvent(sender, onConnect, onDisconnect)
Init == Constructed /\ onDisconnect = "nothing" /\ faulty = "none"

\* the same with either kind of onDisconnect
InitRefire ==
    Constructed /\ onDisconnect \in {"nothing", "fire"} /\ faulty = "none"

\* the whole tree built (flt, fm and mp constructed, which registers
\* nothing), with a predicate or a transform that throws on BadValue
InitThrow ==
    /\ created = Nodes /\ Unobserved
    /\ onDisconnect = "nothing"
    /\ faulty \in {"pred", "transform"}

\* A call made by the program outside any listener.  The record of the latest
\* trigger call is dropped and the hook and transition counts start again, so
\* that they count what this call does.
Fresh(s) == [s EXCEPT !.log = <<>>, !.ev = <<>>, !.err = FALSE,
                      !.conn = Zero, !.disc = Zero,
                      !.ups = Zero, !.downs = Zero]

TopLevel(s) ==
    /\ Install(s)
    /\ pass' = NoPass
    /\ ops' = ops + 1
    /\ UNCHANGED <<created, faulty, onDisconnect>>

CanCall == stack = <<>> /\ ops < MaxOps

\* n = Parent(n).filter(Pred)
FilterCall(n) ==
    /\ stack = <<>>
    /\ Kind(n) = "filter" /\ n \notin created /\ Parent(n) \in created
    /\ created' = created \cup {n}
    /\ Install(filter(Cur, Parent(n), n))
    /\ UNCHANGED <<faulty, pass, hist, relistened, onDisconnect, ops>>

\* n = Parent(n).map(Transform)
MapCall(n) ==
    /\ stack = <<>>
    /\ Kind(n) = "map" /\ n \notin created /\ Parent(n) \in created
    /\ created' = created \cup {n}
    /\ Install(map(Cur, Parent(n), n))
    /\ UNCHANGED <<faulty, pass, hist, relistened, onDisconnect, ops>>

\* n.listen(l)
Listen(n, l) ==
    /\ CanCall /\ n \in created
    /\ TopLevel(listen(Fresh(Cur), n, l))
    /\ hist' = [hist EXCEPT ![l] = "listened"]
    /\ relistened' = (l \in Range(listeners[n]))

\* n.unlisten(l)
Unlisten(n, l) ==
    /\ CanCall /\ n \in created
    /\ TopLevel(unlisten(Fresh(Cur), n, l))
    /\ hist' = [hist EXCEPT ![l] = IF n = "src" /\ @ = "listened"
                                    THEN "unlistened" ELSE @]
    /\ relistened' = FALSE

\* n.next()
Next_(n) ==
    /\ CanCall /\ n \in created /\ Len(promises) < MaxNext
    /\ TopLevel(next(Fresh(Cur), n))
    /\ relistened' = FALSE
    /\ UNCHANGED hist

\* n.take(c)
Take(n, c) ==
    /\ CanCall /\ n \in created /\ take.pc = "idle"
    /\ TopLevel(takeCall(Fresh(Cur), n, c))
    /\ relistened' = FALSE
    /\ UNCHANGED hist

\* the scheduler runs the continuation of the awaiting take()
TakeResume ==
    /\ stack = <<>>
    /\ take.pc = "awaiting" /\ promises[take.cur].st = "resolved"
    /\ Install(takeResume(Fresh(Cur)))
    /\ pass' = NoPass
    /\ UNCHANGED <<created, faulty, hist, relistened, onDisconnect, ops>>

\* a new trigger call begins: next() calls made during an earlier one were
\* made before it
newFire(s) ==
    [s EXCEPT !.pr = [k \in 1..Len(s.pr) |-> [s.pr[k] EXCEPT !.inFire = FALSE]]]

\* trigger(v): the function singleEvent() returned with the source
Trigger(v) ==
    /\ stack = <<>> /\ Len(take.fired) < MaxFires
    /\ Install(trigger(newFire(Fresh(Cur)), "src", v))
    /\ pass' = [on |-> TRUE, val |-> v, L |-> listeners, C |-> children]
    /\ UNCHANGED <<created, faulty, hist, relistened, onDisconnect, ops>>

InLoop(phase) == stack # <<>> /\ stack[Len(stack)].phase = phase

LoopHasMore(set) ==
    stack[Len(stack)].idx < Len(set[stack[Len(stack)].node])

NotifyListener ==
    /\ InLoop("listeners") /\ LoopHasMore(listeners)
    /\ Install(notifyListener(Cur))
    /\ UNCHANGED <<created, faulty, pass, hist, relistened, onDisconnect,
                   ops>>

EndListeners ==
    /\ InLoop("listeners") /\ ~LoopHasMore(listeners)
    /\ Install(endListeners(Cur))
    /\ UNCHANGED <<created, faulty, pass, hist, relistened, onDisconnect,
                   ops>>

NotifyChild ==
    /\ InLoop("children") /\ LoopHasMore(children)
    /\ Install(notifyChild(Cur))
    /\ UNCHANGED <<created, faulty, pass, hist, relistened, onDisconnect,
                   ops>>

EndChildren ==
    /\ InLoop("children") /\ ~LoopHasMore(children)
    /\ Install(endChildren(Cur))
    /\ UNCHANGED <<created, faulty, pass, hist, relistened, onDisconnect,
                   ops>>

\* one step of a running trigger call
Fire ==
    \/ NotifyListener
    \/ EndListeners
    \/ NotifyChild
    \/ EndChildren

\* listen, unlisten, next, filter, map and trigger calls in any order
Next ==
    \/ \E n \in Nodes : FilterCall(n)
    \/ \E n \in Nodes : MapCall(n)
    \/ \E n \in Nodes, l \in PlainListeners : Listen(n, l)
    \/ \E n \in Nodes, l \in PlainListeners : Unlisten(n, l)
    \/ \E n \in Nodes : Next_(n)
    \/ \E v \in Values : Trigger(v)
    \/ Fire

Spec == Init /\ [][Next]_vars

\* a listener that calls next() from inside its body, beside a plain one
NextReentrant ==
    \/ \E n \in Nodes : FilterCall(n)
    \/ \E n \in Nodes, l \in {Plain(1), Reentrant} : Listen(n, l)
    \/ \E n \in Nodes : Next_(n)
    \/ \E v \in Values : Trigger(v)
    \/ Fire

SpecReentrant == Init /\ [][NextReentrant]_vars

\* take() calls, the scheduler resuming them, and trigger calls in any order
NextTake ==
    \/ \E n \in Nodes : FilterCall(n)
    \/ \E n \in Nodes : Listen(n, Plain(1))
    \/ \E n \in Nodes, c \in 0..MaxCount : Take(n, c)
    \/ TakeResume
    \/ \E v \in Values : Trigger(v)
    \/ Fire

SpecTake == Init /\ [][NextTake]_vars

\* firings made from inside a listener and from inside onDisconnect
NextRefire ==
    \/ \E n \in Nodes : FilterCall(n)
    \/ \E n \in Nodes, l \in {Plain(1), Refire} : Listen(n, l)
    \/ \E n \in Nodes : Next_(n)
    \/ \E v \in Values : Trigger(v)
    \/ Fire

SpecRefire == InitRefire /\ [][NextRefire]_vars

\* listeners that call listen and unlisten on their node while it fires
NextMutate ==
    \/ \E n \in Nodes : FilterCall(n)
    \/ \E n \in Nodes, l \in MutatingListeners \cup {Plain(1)} : Listen(n, l)
    \/ \E v \in Values : Trigger(v)
    \/ Fire

SpecMutate == Init /\ [][NextMutate]_vars

\* a listener, a predicate or a transform that throws while the event fires
NextThrow ==
    \/ \E n \in Nodes, l \in {Plain(1), Thrower} : Listen(n, l)
    \/ \E n \in Nodes : Next_(n)
    \/ \E v \in Values : Trigger(v)
    \/ Fire

SpecThrow == InitThrow /\ [][NextThrow]_vars

\* ------------------------------------------------------------ properties

\* the latest trigger call has returned
PassDone == pass.on /\ stack = <<>>

\* the listener calls of the latest trigger call made by node n
LogOf(n) == SelectSeq(log, LAMBDA e : e.node = n)

\* every listener node n had when the trigger call began, called once with v,
\* in Set order
Delivered(n, v) ==
    [i \in 1..Len(pass.L[n]) |->
        [node |-> n, l |-> pass.L[n][i], val |-> v, sender |-> MySender]]

RECURSIVE PreOrder(_, _), PreOrderChildren(_, _, _)

\* the calls a firing of node n with v makes: its own listeners, then its
\* children one after another, each with its whole subtree
PreOrder(n, v) == Delivered(n, v) \o PreOrderChildren(n, v, 1)

PreOrderChildren(n, v, i) ==
    IF i > Len(pass.C[n]) THEN <<>>
    ELSE LET c == pass.C[n][i]
             sub == CASE Kind(c) = "filter" ->
                            IF Pred(v) THEN PreOrder(c, v) ELSE <<>>
                      [] OTHER -> PreOrder(c, Transform(v))
         IN  sub \o PreOrderChildren(n, v, i + 1)

IsPrefix(a, b) == Len(a) <= Len(b) /\ a = SubSeq(b, 1, Len(a))

\* C1: a node's disconnect hook is called exactly once for each transition
\* of the node from non-empty to empty and at no other time: in every call,
\* the calls of the hook equal the transitions.
DisconnectOncePerTransition == \A n \in Nodes : disc[n] = downs[n]

\* C2: the calls of a node's connect hook equal its transitions from empty
\* to non-empty; a listen or addChild on a non-empty node calls no connect.
ConnectOncePerTransition == \A n \in Nodes : conn[n] = ups[n]

\* fm.listen(l) on an unobserved chain src -> flt -> fm connected all three
ConnectWitness ==
    /\ conn["fm"] = 1 /\ conn["flt"] = 1 /\ conn["src"] = 1
    /\ ups["src"] = 1
    /\ children["src"] = <<"flt">>

\* C3: unlisten(l) for a listener that was never added changes no listener
\* set and no child set and calls no connect or disconnect hook, whether or
\* not the node has other observers.
UnlistenNeverAddedIsNoOp ==
    [][\A n \in Nodes, l \in PlainListeners :
          (Unlisten(n, l) /\ hist[l] = "never") =>
              /\ listeners' = listeners
              /\ children' = children
              /\ conn' = Zero
              /\ disc' = Zero]_vars

\* C4: after src.unlisten(l), and until l is listened again, l is in the
\* listener set of no node of the tree and no trigger call calls it.
UnlistenCascade ==
    \A l \in PlainListeners :
        hist[l] = "unlistened" =>
            /\ \A n \in Nodes : l \notin Range(listeners[n])
            /\ \A i \in 1..Len(log) : log[i].l # l

\* src.unlisten(l) has just removed l from fm, two levels down
CascadeWitness ==
    /\ hist[Plain(1)] = "unlistened"
    /\ ops = 2
    /\ downs["fm"] = 1

\* C5: a promise of next() is resolved by a firing that began after the
\* next() call registered its listener, also when next() is called from
\* inside a listener.
NextResolvedByLaterFiring ==
    \A k \in 1..Len(promises) :
        promises[k].st = "resolved" => ~promises[k].sameFire

\* the continuation of the awaiting take() is queued and has not run yet
ResumePending ==
    take.pc = "awaiting" /\ promises[take.cur].st = "resolved"

\* C6: once the node of a take(count) has fired count times (and the
\* scheduler has run what was queued), the promise is fulfilled with the
\* arguments of those count firings in order.
TakeFulfilledAfterCountFirings ==
    (/\ take.pc # "idle"
     /\ stack = <<>>
     /\ ~ResumePending
     /\ Len(take.fired) >= take.count) =>
        /\ take.pc = "done"
        /\ take.arr = SubSeq(take.fired, 1, take.count)

\* C7: a firing calls the node's listeners in Set order, all of them before
\* any child fires, then fires the children in the order they were added,
\* each child's subtree before the next sibling.
DeliveryOrder ==
    pass.on =>
        /\ IsPrefix(log, PreOrder("src", pass.val))
        /\ stack = <<>> => log = PreOrder("src", pass.val)

\* the source's listener, then flt's subtree, then the sibling mp
DeliveryOrderWitness ==
    /\ PassDone
    /\ Len(log) = 3
    /\ log[1].node = "src" /\ log[2].node = "fm" /\ log[3].node = "mp"

\* C8: a firing of src with v calls the listeners of flt = src.filter(Pred),
\* each with v, if and only if Pred(v).
FilterDelivers ==
    (PassDone /\ pass.L["flt"] # <<>>) =>
        LogOf("flt") = IF Pred(pass.val) THEN Delivered("flt", pass.val)
                       ELSE <<>>

\* a rejected value: the source's listener was called, flt's two were not
FilterWitness ==
    /\ PassDone
    /\ Len(pass.L["flt"]) = 2
    /\ ~Pred(pass.val)
    /\ log # <<>>

\* C9: a firing of src with v calls each listener of mp = src.map(Transform)
\* once with Transform(v); the chain fm = src.filter(Pred).map(Transform)
\* delivers Transform(v) for exactly the fired v with Pred(v).
MapDelivers ==
    PassDone =>
        /\ pass.L["mp"] # <<>> =>
              LogOf("mp") = Delivered("mp", Transform(pass.val))
        /\ pass.L["fm"] # <<>> =>
              LogOf("fm") = IF Pred(pass.val)
                            THEN Delivered("fm", Transform(pass.val))
                            ELSE <<>>

\* firing 5 through filter(x > 0).map(x * 2) delivered 10
MapWitness ==
    /\ PassDone
    /\ pass.val = 5
    /\ LogOf("fm") = <<[node |-> "fm", l |-> Plain(1), val |-> 10,
                        sender |-> MySender]>>
    /\ pass.L["mp"] # <<>>

\* C10: take(0) is fulfilled with the empty array without registering a
\* listener: no listener set changes and no hook of any node is called.
TakeZeroRegistersNothing ==
    [][\A n \in Nodes :
          Take(n, 0) =>
              /\ take'.pc = "done" /\ take'.arr = <<>>
              /\ listeners' = listeners
              /\ children' = children
              /\ promises' = promises
              /\ conn' = Zero
              /\ disc' = Zero]_vars

TakeZeroWitness == take.pc = "done" /\ take.count = 0 /\ promises = <<>>

\* C11: every listener call made by a firing, on the source and on every
\* node derived from it at any depth, passes the sender that was handed to
\* singleEvent() as its second argument.
SenderEverywhere == \A i \in 1..Len(log) : log[i].sender = MySender

\* one firing has called listeners of the source and of fm, two levels down
SenderWitness ==
    /\ PassDone
    /\ \E i, j \in 1..Len(log) : log[i].node = "src" /\ log[j].node = "fm"

\* no node of the tree has a listener
TreeSilent == \A n \in Nodes : listeners[n] = <<>>

\* the calls of the source's onConnect made by one step: a step of a running
\* trigger call or a filter/map call adds to the count, any other step is a
\* new call and starts it again
OnConnectCalls ==
    IF stack # <<>> \/ created' # created
    THEN conn'["src"] - conn["src"]
    ELSE conn'["src"]

\* C12: a filter or map call changes no listener set and no child set and
\* calls no hook; the source's onConnect is called exactly by the step that
\* attaches the first listener to a node of a tree that had no listener, on
\* the source or on a derived node at any depth.
FilterMapLazy ==
    [][/\ created' # created =>
            /\ listeners' = listeners
            /\ children' = children
            /\ conn' = conn
            /\ disc' = disc
       /\ OnConnectCalls = IF TreeSilent /\ ~TreeSilent' THEN 1 ELSE 0]_vars

\* all four nodes built without a hook call, then the first listener of the
\* tree attached to fm: onConnect ran once, at that call
FilterMapWitness ==
    /\ created = Nodes
    /\ ops = 1
    /\ listeners["fm"] # <<>> /\ listeners["src"] = <<>>
    /\ conn["src"] = 1

\* C16 as stated: a filter or map call registers the new node as a child of
\* its parent at once, and calls the connect hook of a parent that had no
\* listeners and no children.
RegistersAtConstruction ==
    [][\A n \in Nodes :
          (FilterCall(n) \/ MapCall(n)) =>
              /\ n \in Range(children'[Parent(n)])
              /\ IsEmpty(Cur, Parent(n)) =>
                    conn'[Parent(n)] = conn[Parent(n)] + 1]_vars

\* C16 amended: the new node becomes a child of its parent not when filter
\* or map builds it but when it gets its first listener or child: the call
\* that takes it from empty to non-empty calls its connect hook, which adds
\* it to the parent's child set and calls the parent's connect hook if the
\* parent had no listeners and no children.
RegistersAtFirstListen ==
    [][\A n \in Nodes \ {"src"} :
          /\ (created' # created /\ (FilterCall(n) \/ MapCall(n))) =>
                n \notin Range(children'[Parent(n)]) /\ conn' = conn
          /\ (/\ ops' = ops + 1
              /\ IsEmpty(Cur, n)
              /\ listeners'[n] # <<>> \/ children'[n] # <<>>) =>
                /\ n \in Range(children'[Parent(n)])
                /\ conn'[n] = 1
                /\ conn'[Parent(n)] = IF IsEmpty(Cur, Parent(n)) THEN 1 ELSE 0]_vars

\* mp was built, and its first listener made it the source's only child
RegistersWitness ==
    /\ ops = 1
    /\ listeners["mp"] # <<>>
    /\ children["src"] = <<"mp">>
    /\ conn["mp"] = 1 /\ conn["src"] = 1

\* the listener of the k-th next() is in some node's listener set
Registered(k) == \E n \in Nodes : NextL(k) \in Range(listeners[n])

\* C13: the listener of a next() call is called at most once, whatever
\* firings follow (from a listener or from onDisconnect too); once called it
\* is in no listener set; and when it was the only observer of its node, the
\* call leaves the node empty and calls the node's disconnect hook once.
NextListenerOnce ==
    [][\A k \in 1..Len(promises') :
          /\ promises'[k].calls <= 1
          /\ promises'[k].calls = 1 =>
                promises'[k].st = "resolved" /\ ~Registered(k)'
          /\ (/\ k <= Len(promises)
              /\ promises[k].calls = 0 /\ promises'[k].calls = 1
              /\ listeners[promises[k].node] = <<NextL(k)>>
              /\ children[promises[k].node] = <<>>) =>
                /\ listeners'[promises[k].node] = <<>>
                /\ children'[promises[k].node] = <<>>
                /\ disc'[promises[k].node] = disc[promises[k].node] + 1]_vars

\* a listener before the next() listener fired the event again: the inner
\* firing called the next() listener, the outer one passed over it, and the
\* listener was called twice in all
NextOnceWitness ==
    /\ PassDone
    /\ Len(promises) = 1 /\ promises[1].calls = 1
    /\ Cardinality({i \in 1..Len(log) : log[i].l = Refire}) = 2

\* the next() listener was the only observer of the source, and the
\* onDisconnect it caused fired the event again
NextOnceHookWitness ==
    /\ onDisconnect = "fire"
    /\ PassDone /\ pass.L["src"] = <<NextL(1)>>
    /\ disc["src"] = 1

\* the calls of listener l made by node n in the latest trigger call
CallsOf(n, l) ==
    Cardinality({i \in 1..Len(log) : log[i].node = n /\ log[i].l = l})

\* node n was fired by the latest trigger call
Notified(n) ==
    \/ n = "src"
    \/ n = "flt" /\ "flt" \in Range(children["src"]) /\ Pred(pass.val)

\* C14: whatever listen and unlisten calls the listeners of a firing node
\* make on it, no listener is called more than once in the pass, and a
\* listener that was registered when the pass began and was not removed
\* during it has been called exactly once when the pass is over.
NoDoubleVisit ==
    pass.on =>
        /\ \A n \in Nodes, l \in AllListeners : CallsOf(n, l) <= 1
        /\ stack = <<>> =>
              \A n \in Nodes, l \in AllListeners \ {Renewer} :
                  (/\ Notified(n)
                   /\ l \in Range(pass.L[n])
                   /\ l \in Range(listeners[n])) => CallsOf(n, l) = 1

\* the values the node of the take fired with while the take's listener was
\* registered, in firing order
HeardValues ==
    LET at == SelectSeq([i \in 1..Len(take.fired) |-> i],
                        LAMBDA i : take.heard[i])
    IN  [j \in 1..Len(at) |-> take.fired[at[j]]]

\* what the take has collected: its array, and the value its resolved
\* promise holds for the continuation that is queued
Collected ==
    take.arr \o (IF ResumePending THEN <<promises[take.cur].val>> ELSE <<>>)

EvalsOf(n) == SelectSeq(evals, LAMBDA e : e.node = n)

\* C17: a firing of the source calls the predicate of flt, a filter node
\* with an observer, exactly once, however many listeners and children flt
\* has; when the predicate rejects the value, no listener of flt or of its
\* child fm is called and the transform of fm is not called.
PredicateOnce ==
    /\ Len(EvalsOf("flt")) <= 1
    /\ (PassDone /\ "flt" \in Range(pass.C["src"])) =>
          /\ EvalsOf("flt") = <<[node |-> "flt", arg |-> pass.val]>>
          /\ ~Pred(pass.val) =>
                /\ LogOf("flt") = <<>> /\ LogOf("fm") = <<>>
                /\ EvalsOf("fm") = <<>>

\* flt with two listeners and the child fm accepted a value: one call of
\* the predicate, three listener calls below it
PredicateOnceWitness ==
    /\ PassDone /\ Pred(pass.val)
    /\ Len(pass.L["flt"]) = 2 /\ pass.C["flt"] = <<"fm">>
    /\ Len(EvalsOf("flt")) = 1 /\ Len(EvalsOf("fm")) = 1
    /\ Len(log) = 3

\* a listener call of node n is behind a function that throws on the value
\* the latest trigger call fired
Blocked(n) ==
    /\ pass.val = BadValue
    /\ \/ faulty = "pred" /\ n \in {"flt", "fm"}
       \/ faulty = "transform" /\ Kind(n) = "map"

\* the calls of a firing in delivery order, up to the error: the call of a
\* throwing listener is the last one, and no call is made behind a throwing
\* predicate or transform
UpToError(seq) ==
    LET stops == {i \in 1..Len(seq) :
                     seq[i].l = Thrower \/ Blocked(seq[i].node)}
        first == CHOOSE i \in stops : \A j \in stops : i <= j
    IN  IF stops = {} THEN seq
        ELSE IF Blocked(seq[first].node) THEN SubSeq(seq, 1, first - 1)
        ELSE SubSeq(seq, 1, first)

\* C18, the calls made: an error raised by a listener, a predicate or a
\* transform ends the trigger call, and the listeners and children that come
\* later in delivery order are not called; a next() listener that was not
\* reached stays registered with its promise pending.
ErrorEndsPass ==
    PassDone =>
        /\ log = UpToError(PreOrder("src", pass.val))
        /\ thrown <=> log # PreOrder("src", pass.val) \/ Thrower \in
                          {log[i].l : i \in 1..Len(log)}
        /\ \A k \in 1..Len(promises) :
              promises[k].calls = 0 =>
                  promises[k].st = "pending" /\ Registered(k)

\* C18, the sets: the step that raises the error leaves the trigger call
\* and changes no listener set, no child set and no promise.
ErrorKeepsSets ==
    (~thrown /\ thrown') =>
        /\ stack' = <<>>
        /\ listeners' = listeners
        /\ children' = children
        /\ promises' = promises

\* C18: if a listener, predicate or transform raises an error during a
\* firing, the error leaves the trigger call, what comes later in delivery
\* order is not notified, and all listener and child sets stay as they were
\* when the error was raised.
ErrorPropagates == []ErrorEndsPass /\ [][ErrorKeepsSets]_vars

\* the transform of mp threw after the source's listener had been called:
\* the next() listener registered on mp was not reached
ErrorWitness ==
    /\ PassDone /\ thrown /\ faulty = "transform"
    /\ Len(log) = 1 /\ log[1].node = "src"
    /\ Len(promises) = 1 /\ promises[1].node = "mp"
    /\ promises[1].st = "pending"

\* a throwing listener of the source kept the later listener from its call
ErrorListenerWitness ==
    /\ PassDone /\ thrown
    /\ pass.L["src"] = <<Thrower, Plain(1)>>
    /\ Len(log) = 1

\* C19: listen(l) on a node that has l already changes nothing: l keeps its
\* place in the delivery order and no connect hook is called; no listener
\* set ever holds a listener twice, so a firing calls it once; and one
\* unlisten(l) leaves the node without l.
ListenIdempotent ==
    [][/\ \A n \in Nodes, l \in PlainListeners :
            (l \in Range(listeners[n]) /\ ops' = ops + 1 /\ Listen(n, l)) =>
                /\ listeners' = listeners
                /\ children' = children
                /\ conn' = Zero
       /\ \A n \in Nodes, l \in PlainListeners :
            (l \in Range(listeners'[n]) /\ ops' = ops + 1) => ~Unlisten(n, l)
       /\ \A n \in Nodes :
            \A i, j \in 1..Len(listeners'[n]) :
                listeners'[n][i] = listeners'[n][j] => i = j
       /\ Len(log') > Len(log) =>
            \A i \in 1..Len(log) :
                \/ log[i].node # log'[Len(log')].node
                \/ log[i].l # log'[Len(log')].l]_vars

\* Plain(1), then Plain(2), then Plain(1) again were listened on the source:
\* the firing called Plain(1) first and each of them once
ListenTwiceWitness ==
    /\ relistened /\ ops = 3
    /\ PassDone
    /\ pass.L["src"] = <<Plain(1), Plain(2)>>
    /\ Len(log) = 2 /\ log[1].l = Plain(1) /\ log[2].l = Plain(2)

RECURSIVE Reachable(_)

\* node n is reached from the source through child sets
Reachable(n) ==
    \/ Kind(n) = "source"
    \/ n \in Range(children[Parent(n)]) /\ Reachable(Parent(n))

\* every predicate between the source and node n accepts v
Accepted(n, v) == n \in {"flt", "fm"} => Pred(v)

\* C20: when no call is running, a derived node is in its parent's child
\* set if and only if it has a listener or a child; so every node that has
\* a listener is reached from the source through child sets, and a firing
\* whose value its filters accept calls its listeners.
ChildIffObserved ==
    stack = <<>> =>
        /\ \A n \in Nodes \ {"src"} :
              n \in Range(children[Parent(n)]) <=> ~IsEmpty(Cur, n)
        /\ \A n \in Nodes : listeners[n] # <<>> => Reachable(n)
        /\ \A n \in Nodes :
              (pass.on /\ ~thrown /\ pass.L[n] # <<>> /\ Accepted(n, pass.val))
                  => LogOf(n) # <<>>

\* the latest call emptied flt, which left the source's child set, while mp
\* keeps its listener and its place there
ChildIffObservedWitness ==
    /\ stack = <<>>
    /\ downs["flt"] = 1
    /\ children["src"] = <<"mp">>
    /\ listeners["mp"] # <<>>

RECURSIVE Lineage(_)

\* node n and the nodes its hooks reach: its parent, and so on to the source
Lineage(n) == IF Kind(n) = "source" THEN {n} ELSE {n} \cup Lineage(Parent(n))

RECURSIVE OnlyNext(_)

\* nothing observes node n but listeners built by next(): its listeners are
\* such closures and so is everything that observes its registered children
OnlyNext(n) ==
    /\ \A i \in 1..Len(listeners[n]) : listeners[n][i].kind = "next"
    /\ \A i \in 1..Len(children[n]) : OnlyNext(children[n][i])

\* the node of the take and those of its ancestors that nothing else observes
TakeOnly ==
    IF OnlyNext(take.node)
    THEN {a \in Lineage(take.node) : OnlyNext(a)}
    ELSE {}

\* what the take has counted on the nodes only it observes: count connects
\* and count disconnects once it has returned, and while it waits one
\* connect per next() called and one disconnect per element received
TakeHookCounts ==
    \A a \in TakeOnly :
        /\ (take.pc = "done" /\ take.count >= 1) =>
                /\ take.conns[a] = take.count
                /\ take.discs[a] = take.count
        /\ (take.pc = "awaiting" /\ stack = <<>>) =>
                /\ take.conns[a] = Len(take.arr) + 1
                /\ take.discs[a] = Len(Collected)

\* no step leaves a node observed by next() listeners only that was not
\* so before: a node for which TakeOnly holds was so since the take began
OthersStay == \A n \in Nodes : OnlyNext(n)' => OnlyNext(n)

\* C21: a take(count), count >= 1, on a node with no other listeners or
\* children, once it has collected count firings, has had that node's
\* _connect called exactly count times and its _disconnect exactly count
\* times, and likewise for every ancestor nothing else observes; on the way,
\* each collected element was followed by a disconnect and each further
\* next() by a connect.
TakeHooksPerElement == []TakeHookCounts /\ [][OthersStay]_vars

\* take(2) on flt, which nothing else observes, has returned: the source's
\* onConnect and onDisconnect ran twice each
TakeHookWitness ==
    /\ take.pc = "done" /\ take.count = 2 /\ take.node = "flt"
    /\ TakeOnly = {"src", "flt"}
    /\ take.conns["src"] = 2 /\ take.discs["src"] = 2

====
